---- MODULE Spec2Model ----
(***************************************************************************)
(* Model of the per-connection proxy session of go-tcp-proxy-tunnel        *)
(* (src/pkg/proxy/proxy.go): the configuration setters, Start, err, the    *)
(* forwarding tasks (handleForwardData) and the two first-packet rewrite   *)
(* hooks (handleOutboundData / handleInboundData).                         *)
(*                                                                         *)
(* Byte strings are sequences of byte values (ASCII codes), so that        *)
(* strings.ToLower, strings.Contains, strings.Replace, strings.Split,      *)
(* strings.Join and bufio.ScanLines are computed as the Go library         *)
(* computes them on ASCII input.                                           *)
(***************************************************************************)
EXTENDS Integers, Sequences, FiniteSets, TLC

(***************************************************************************)
(* Bounds of the model.                                                    *)
(***************************************************************************)
\* Number of buffers the two peers of a session deliver, both directions
\* together.
MaxReads == 3

\* Number of requests the WebSocket web server handles.
MaxRequests == 2

(***************************************************************************)
(* Program constants.                                                      *)
(***************************************************************************)
\* errSig: make(chan bool, 2)
ErrSigCap == 2

\* "[host]"
TokHost == <<91,104,111,115,116,93>>

\* "[host_port]"
TokHostPort == <<91,104,111,115,116,95,112,111,114,116,93>>

\* "[sni]"
TokSni == <<91,115,110,105,93>>

\* "[crlf]"
TokCrlf == <<91,99,114,108,102,93>>

\* "\r\n"
CRLF == <<13,10>>

\* "upgrade: websocket"
StrUpgradeWebsocket == <<117,112,103,114,97,100,101,58,32,119,101,98,115,111,99,107,101,116>>

\* "CONNECT "
StrConnect == <<67,79,78,78,69,67,84,32>>

\* " 101 "
Str101 == <<32,49,48,49,32>>

\* " wss://"
StrWss == <<32,119,115,115,58,47,47>>

\* " "
StrSpace == <<32>>

\* "HTTP/1.1 101 Switching Protocols\r\nUpgrade: websocket\r\nConnection: Upgrade\r\n\r\n"
SwitchingProtocols == <<72,84,84,80,47,49,46,49,32,49,48,49,32,83,119,105,116,99,104,105,110,103,32,80,114,111,116,111,99,111,108,115,13,10,85,112,103,114,97,100,101,58,32,119,101,98,115,111,99,107,101,116,13,10,67,111,110,110,101,99,116,105,111,110,58,32,85,112,103,114,97,100,101,13,10,13,10>>

\* "HTTP/1.1 200 Connection Established[crlf][crlf]"
DefaultRPayload == <<72,84,84,80,47,49,46,49,32,50,48,48,32,67,111,110,110,101,99,116,105,111,110,32,69,115,116,97,98,108,105,115,104,101,100,91,99,114,108,102,93,91,99,114,108,102,93>>

(***************************************************************************)
(* Inputs: configuration values and the buffers the peers deliver.         *)
(***************************************************************************)
\* "CONNECT [host_port] HTTP/1.1[crlf][crlf]"
TemplateConnect == <<67,79,78,78,69,67,84,32,91,104,111,115,116,95,112,111,114,116,93,32,72,84,84,80,47,49,46,49,91,99,114,108,102,93,91,99,114,108,102,93>>

\* "example.com:22"
ServerExample == <<101,120,97,109,112,108,101,46,99,111,109,58,50,50>>

\* "cdn.example"
SniExample == <<99,100,110,46,101,120,97,109,112,108,101>>

\* "CONNECT anything HTTP/1.1\r\n\r\n"
BufConnect == <<67,79,78,78,69,67,84,32,97,110,121,116,104,105,110,103,32,72,84,84,80,47,49,46,49,13,10,13,10>>

\* "GET /abc HTTP/1.1\r\nHost: x\r\n\r\n"
BufGet == <<71,69,84,32,47,97,98,99,32,72,84,84,80,47,49,46,49,13,10,72,111,115,116,58,32,120,13,10,13,10>>

\* "GET / HTTP/1.1\r\nUpgrade: WebSocket\r\n\r\n"
BufUpgrade == <<71,69,84,32,47,32,72,84,84,80,47,49,46,49,13,10,85,112,103,114,97,100,101,58,32,87,101,98,83,111,99,107,101,116,13,10,13,10>>

\* "abc"
BufRaw == <<97,98,99>>

\* "GET / HTTP/1.1\r\nX: a / b\r\n\r\n": the request target occurs in a header too.
BufSlash == <<71,69,84,32,47,32,72,84,84,80,47,49,46,49,13,10,88,58,32,97,32,47,32,98,13,10,13,10>>

\* "": a Read that returned 0 bytes and no error.
BufEmpty == <<>>

\* "HTTP/1.1 101 Switching Protocols\r\n\r\n"
Buf101 == <<72,84,84,80,47,49,46,49,32,49,48,49,32,83,119,105,116,99,104,105,110,103,32,80,114,111,116,111,99,111,108,115,13,10,13,10>>

\* "[host] [host_port] [sni][crlf]"
TemplateAll == <<91,104,111,115,116,93,32,91,104,111,115,116,95,112,111,114,116,93,32,91,115,110,105,93,91,99,114,108,102,93>>

\* "[sni][sni]-[host][host]"
TemplateRepeat == <<91,115,110,105,93,91,115,110,105,93,45,91,104,111,115,116,93,91,104,111,115,116,93>>

\* "[[host]]"
TemplateNested == <<91,91,104,111,115,116,93,93>>

\* "GET / HTTP/1.1"
TemplatePlain == <<71,69,84,32,47,32,72,84,84,80,47,49,46,49>>

\* "[crlf][sni][host_port][host]"
TemplateReverse == <<91,99,114,108,102,93,91,115,110,105,93,91,104,111,115,116,95,112,111,114,116,93,91,104,111,115,116,93>>

\* "[host] 200 OK[crlf][sni][crlf]"
RTemplateTokens == <<91,104,111,115,116,93,32,50,48,48,32,79,75,91,99,114,108,102,93,91,115,110,105,93,91,99,114,108,102,93>>

\* "host:22"
ServerNamedHost == <<104,111,115,116,58,50,50>>

\* "example.com": no port
ServerNoPort == <<101,120,97,109,112,108,101,46,99,111,109>>

\* "example.com:ssh": a port that is not a number
ServerBadPort == <<101,120,97,109,112,108,101,46,99,111,109,58,115,115,104>>

\* "HTTP/1.1 101 Switching Protocols\nUpgrade: websocket\r\n\r\n": the first
\* line ends in a bare "\n".
Buf101Upgrade == <<72,84,84,80,47,49,46,49,32,49,48,49,32,83,119,105,116,99,104,105,110,103,32,80,114,111,116,111,99,111,108,115,10,85,112,103,114,97,100,101,58,32,119,101,98,115,111,99,107,101,116,13,10,13,10>>

\* "websocket"
StrWebsocket == <<119,101,98,115,111,99,107,101,116>>

\* "*", the default of the -d flag
StrStar == <<42>>

\* ","
StrComma == <<44>>

\* "a.com,b.com"
DomainList == <<97,46,99,111,109,44,98,46,99,111,109>>

\* "a.com"
HostA == <<97,46,99,111,109>>

\* "b.com"
HostB == <<98,46,99,111,109>>

\* "c.com"
HostC == <<99,46,99,111,109>>

\* "WebSocket"
UpgradeMixed == <<87,101,98,83,111,99,107,101,116>>

\* "h2c"
UpgradeH2c == <<104,50,99>>

\* "CONNECT example.com:22 HTTP/1.1\r\n\r\n"
ExpectConnect == <<67,79,78,78,69,67,84,32,101,120,97,109,112,108,101,46,99,111,109,58,50,50,32,72,84,84,80,47,49,46,49,13,10,13,10>>

(***************************************************************************)
(* The Go library functions the hooks and setters use, on byte sequences.  *)
(***************************************************************************)
\* s[i..] (1-based), the empty sequence when i is past the end.
Drop(s, i) == SubSeq(s, i, Len(s))

\* strings.HasPrefix(s[i-1:], p), i 1-based.
MatchAt(s, i, p) ==
    /\ i + Len(p) - 1 <= Len(s)
    /\ SubSeq(s, i, i + Len(p) - 1) = p

\* strings.Contains(s, p)
Contains(s, p) == \E i \in 1..(Len(s) + 1) : MatchAt(s, i, p)

\* strings.Index(s, p), 1-based; 0 when p does not occur.
Index(s, p) ==
    IF Contains(s, p)
    THEN CHOOSE i \in 1..(Len(s) + 1) :
            /\ MatchAt(s, i, p)
            /\ \A j \in 1..(i - 1) : ~MatchAt(s, j, p)
    ELSE 0

\* strings.ToLower on ASCII bytes.
ToLower(s) == [i \in 1..Len(s) |-> IF s[i] \in 65..90 THEN s[i] + 32 ELSE s[i]]

\* strings.Replace(s, old, new, -1) for a non-empty old: every
\* non-overlapping occurrence, left to right.
RECURSIVE Replace(_, _, _)
Replace(s, old, new) ==
    LET i == Index(s, old) IN
    IF i = 0
    THEN s
    ELSE SubSeq(s, 1, i - 1) \o new \o Replace(Drop(s, i + Len(old)), old, new)

\* strings.Split(s, sep) for a non-empty sep.
RECURSIVE Split(_, _)
Split(s, sep) ==
    LET i == Index(s, sep) IN
    IF i = 0
    THEN <<s>>
    ELSE <<SubSeq(s, 1, i - 1)>> \o Split(Drop(s, i + Len(sep)), sep)

\* strings.Join(a, sep)
RECURSIVE Join(_, _)
Join(a, sep) ==
    IF Len(a) = 0 THEN <<>>
    ELSE IF Len(a) = 1 THEN a[1]
    ELSE a[1] \o sep \o Join(Tail(a), sep)

\* bufio's dropCR: a trailing "\r" of a line is removed.
DropCR(line) ==
    IF Len(line) > 0 /\ line[Len(line)] = 13
    THEN SubSeq(line, 1, Len(line) - 1)
    ELSE line

\* The lines bufio.Scanner (ScanLines) yields for s: split at "\n", each line
\* without its trailing "\r"; a final unterminated line is yielded when it
\* is not empty; the empty input yields no line.
RECURSIVE ScanLines(_)
ScanLines(s) ==
    LET i == Index(s, <<10>>) IN
    IF Len(s) = 0
    THEN <<>>
    ELSE IF i = 0
    THEN <<DropCR(s)>>
    ELSE <<DropCR(SubSeq(s, 1, i - 1))>> \o ScanLines(Drop(s, i + 1))

(***************************************************************************)
(* Host parsing and payload templates (the configuration setters).         *)
(***************************************************************************)
\* The zero value of tcp.Host.
NoHost == [HostName |-> <<>>, Port |-> 0]

\* Number of ":" bytes in s.
RECURSIVE Colons(_)
Colons(s) ==
    IF Len(s) = 0 THEN 0
    ELSE (IF Head(s) = 58 THEN 1 ELSE 0) + Colons(Tail(s))

\* net.SplitHostPort for an unbracketed "host:port": exactly one colon is
\* required ("missing port in address" / "too many colons in address").
SplitHostPort(server) ==
    IF Colons(server) # 1
    THEN [ok |-> FALSE, host |-> <<>>, port |-> <<>>]
    ELSE LET i == Index(server, <<58>>) IN
         [ok |-> TRUE, host |-> SubSeq(server, 1, i - 1), port |-> Drop(server, i + 1)]

\* strconv.ParseUint(s, 10, 64): a non-empty sequence of decimal digits.
RECURSIVE DigitsValue(_)
DigitsValue(s) ==
    IF Len(s) = 0 THEN 0
    ELSE 10 * DigitsValue(SubSeq(s, 1, Len(s) - 1)) + (s[Len(s)] - 48)

ParseUint(s) ==
    IF Len(s) > 0 /\ \A i \in 1..Len(s) : s[i] \in 48..57
    THEN [ok |-> TRUE, val |-> DigitsValue(s)]
    ELSE [ok |-> FALSE, val |-> 0]

\* fmt's %d of an unsigned number.
RECURSIVE FormatUint(_)
FormatUint(n) ==
    IF n < 10 THEN <<48 + n>>
    ELSE FormatUint(n \div 10) \o <<48 + (n % 10)>>

\* Mutant of SetServerHost: a failed parse stores the zero Host.
SetServerHost_ZeroOnError(server, old) ==
    LET hp == SplitHostPort(server) IN
    IF ~hp.ok THEN NoHost
    ELSE LET port == ParseUint(hp.port) IN
         IF ~port.ok THEN NoHost
         ELSE [HostName |-> hp.host, Port |-> port.val]

\* SetServerHost: the Host stored after the call, given the one stored
\* before; a parse failure returns early and stores nothing.
SetServerHost(server, old) ==
    LET hp == SplitHostPort(server) IN
    IF ~hp.ok THEN old
    ELSE LET port == ParseUint(hp.port) IN
         IF ~port.ok THEN old
         ELSE [HostName |-> hp.host, Port |-> port.val]

\* Mutant of SetlPayload: the [host_port] token is not substituted.
SetlPayload_NoHostPort(template, host, sni) ==
    LET a == IF host.HostName # <<>>
             THEN Replace(template, TokHost, host.HostName)
             ELSE template
        b == IF sni # <<>> THEN Replace(a, TokSni, sni) ELSE a
    IN  Replace(b, TokCrlf, CRLF)

\* Mutant of SetlPayload: [sni] is substituted also when sniHost is empty.
SetlPayload_SniAlways(template, host, sni) ==
    LET a == IF host.HostName # <<>>
             THEN Replace(Replace(template, TokHost, host.HostName),
                          TokHostPort,
                          host.HostName \o <<58>> \o FormatUint(host.Port))
             ELSE template
        b == Replace(a, TokSni, sni)
    IN  Replace(b, TokCrlf, CRLF)

\* SetlPayload: the bytes stored in lPayload.
SetlPayload(template, host, sni) ==
    LET a == IF host.HostName # <<>>
             THEN Replace(Replace(template, TokHost, host.HostName),
                          TokHostPort,
                          host.HostName \o <<58>> \o FormatUint(host.Port))
             ELSE template
        b == IF sni # <<>> THEN Replace(a, TokSni, sni) ELSE a
    IN  Replace(b, TokCrlf, CRLF)

\* SetrPayload: the bytes stored in rPayload.
SetrPayload(template) ==
    Replace(IF template = <<>> THEN DefaultRPayload ELSE template, TokCrlf, CRLF)

(***************************************************************************)
(* The inputs the model draws from.                                        *)
(***************************************************************************)
\* The flag sets the accept loop may run with: -s (empty: SetServerHost is
\* not called), -sni and -tls.
FlagInputs ==
    { [server |-> ServerExample, sni |-> SniExample, tls |-> TRUE],
      [server |-> <<>>, sni |-> <<>>, tls |-> FALSE] }

\* proxy kinds: plain, ssh, trojan.
ProxyKinds == {"", "ssh", "trojan"}

\* Arguments of the setters when they are called one by one.
LTemplateInputs ==
    {TemplateConnect, TemplateAll, TemplateRepeat, TemplateNested, TemplatePlain,
     TemplateReverse, <<>>}

RTemplateInputs == {<<>>, RTemplateTokens}

\* NewProxy: buffSize is uint64(0xffff).
DefaultBuffSize == 65535

BuffSizeInputs == {4096, DefaultBuffSize}

ServerInputs == {ServerExample, ServerNamedHost, ServerNoPort, ServerBadPort}

SniInputs == {<<>>, SniExample}

\* Buffers the local peer may deliver.
LocalInputs == {BufConnect, BufGet, BufUpgrade, BufRaw, BufSlash, BufEmpty}

\* Buffers the remote peer may deliver.
RemoteInputs == {Buf101, Buf101Upgrade, BufRaw, BufEmpty}

\* Buffers a peer may deliver after its first one.
LaterLocalInputs == {BufConnect, BufUpgrade}

LaterRemoteInputs == {Buf101}

(***************************************************************************)
(* State.                                                                  *)
(***************************************************************************)
VARIABLES
    \* Proxy fields
    serverProxyMode, proxyKind, tlsEnabled, sniHost, sHost, lPayload, rPayload,
    \* the setter called last and the templates SetlPayload / SetrPayload got
    buffSize,             \* size of the buffer a task reads into
    lastCall, lTemplate, rTemplate,
    lInitialized, rInitialized, wsUpgradeInitialized,
    bytesSent, bytesReceived,
    erred, errSig,
    lConn, rConn,         \* state of the two streams: "nil", "open", "closed"
    \* control state
    startPc,              \* position of the accept loop / Start
    tasks,                \* the forwarding goroutines started so far
    panicked,             \* a goroutine panicked: the process has exited
    otherSession,         \* another session of the same process: "running", "exited"
    \* the WebSocket web server (cmd/ws-web-server), a process of its own
    wsPc,                 \* "main" before flag.Parse, then "serving"
    domain,               \* the -d flag
    wsLog,                \* the requests handled, each with the handler's outcome
    logged,               \* the counters Start printed in its close line
    \* observation counters
    dials, sends, recvs, lCloses, rCloses, reads, written, forwarded

callVars == <<lastCall, lTemplate, rTemplate>>
cfgVars == <<serverProxyMode, proxyKind, tlsEnabled, sniHost, sHost, lPayload, rPayload,
             buffSize, callVars>>
hookVars == <<lInitialized, rInitialized, wsUpgradeInitialized>>
cntVars == <<bytesSent, bytesReceived>>
sigVars == <<erred, errSig, sends, recvs>>
connVars == <<lConn, rConn, lCloses, rCloses, dials>>
ioVars == <<reads, written, forwarded>>

procVars == <<panicked, otherSession>>
wsVars == <<wsPc, domain, wsLog>>

vars == <<cfgVars, hookVars, cntVars, sigVars, connVars, ioVars,
          startPc, tasks, procVars, logged, wsVars>>

Streams == {"l", "r"}

\* The state of stream st.
Conn(st) == IF st = "l" THEN lConn ELSE rConn

\* A goroutine running handleForwardData(src, dst), about to read.
NewTask(src, dst) ==
    [src |-> src, dst |-> dst, pc |-> "read",
     rbuf |-> <<>>,      \* the bytes the last Read returned
     connBuff |-> <<>>,  \* connBuff, after the hook
     k |-> 0,            \* which buffer of its source stream this is
     n |-> 0, werr |-> FALSE,   \* result of the last Write
     wto |-> "nil"]      \* the stream the last Write went to

\* NewProxy
Init ==
    /\ serverProxyMode = FALSE
    /\ proxyKind = ""
    /\ tlsEnabled = FALSE
    /\ sniHost = <<>>
    /\ sHost = NoHost
    /\ lPayload = <<>>
    /\ rPayload = <<>>
    /\ buffSize = DefaultBuffSize
    /\ lastCall = "NewProxy"
    /\ lTemplate = <<>>
    /\ rTemplate = <<>>
    /\ lInitialized = FALSE
    /\ rInitialized = FALSE
    /\ wsUpgradeInitialized = FALSE
    /\ bytesSent = 0
    /\ bytesReceived = 0
    /\ erred = FALSE
    /\ errSig = <<>>
    /\ lConn = "open"
    /\ rConn = "nil"
    /\ startPc = "new"
    /\ tasks = <<>>
    /\ panicked = FALSE
    /\ otherSession = "running"
    /\ wsPc = "main"
    /\ domain = StrStar
    /\ wsLog = <<>>
    /\ logged = <<>>
    /\ dials = 0
    /\ sends = 0
    /\ recvs = 0
    /\ lCloses = 0
    /\ rCloses = 0
    /\ reads = [st \in Streams |-> 0]
    /\ written = [st \in Streams |-> 0]
    /\ forwarded = [st \in Streams |-> 0]

(***************************************************************************)
(* The first-packet rewrite hooks.  Each yields what the hook leaves       *)
(* behind: whether it panicked (index out of range), connBuff, and the     *)
(* flags it writes.                                                        *)
(***************************************************************************)
\* Mutant of DoUpgrade: the lines are compared without strings.ToLower.
DoUpgrade_CaseSensitive(lines) ==
    \E j \in 1..Len(lines) : Contains(lines[j], StrUpgradeWebsocket)

\* A line of lines contains "upgrade: websocket", compared in lower case.
DoUpgrade(lines) ==
    \E j \in 1..Len(lines) : Contains(ToLower(lines[j]), StrUpgradeWebsocket)

\* The client-mode branch of handleOutboundData for proxyKind "ssh".
OutboundSsh(connBuff, respArr) ==
    IF Len(respArr) = 0
    THEN [panic |-> TRUE, connBuff |-> connBuff]
    ELSE IF Contains(respArr[1], StrConnect)
    THEN [panic |-> FALSE, connBuff |-> lPayload]
    ELSE [panic |-> FALSE, connBuff |-> connBuff]

\* The client-mode branch of handleOutboundData for proxyKind "trojan".
OutboundTrojan(connBuff, respArr) ==
    IF Len(respArr) = 0 \/ Len(Split(respArr[1], StrSpace)) < 2
    THEN [panic |-> TRUE, connBuff |-> connBuff]
    ELSE LET reqPath == Split(respArr[1], StrSpace)[2]
             newReqPath == StrWss \o sniHost \o reqPath \o StrSpace
         IN  [panic |-> FALSE,
              connBuff |-> Replace(connBuff, StrSpace \o reqPath \o StrSpace, newReqPath)]

\* Mutant of OutboundFirst: line 231 is missing, the latch is never set.
OutboundFirst_NeverLatched(connBuff) ==
    LET respArr == ScanLines(connBuff)
        same == [panic |-> FALSE, connBuff |-> connBuff,
                 lInitialized |-> FALSE, wsUpgradeInitialized |-> wsUpgradeInitialized]
    IN
    IF serverProxyMode
    THEN IF DoUpgrade(respArr)
         THEN [same EXCEPT !.connBuff = SwitchingProtocols, !.wsUpgradeInitialized = TRUE]
         ELSE same
    ELSE IF proxyKind = "ssh"
    THEN LET r == OutboundSsh(connBuff, respArr)
         IN  [same EXCEPT !.panic = r.panic, !.connBuff = r.connBuff]
    ELSE IF proxyKind = "trojan"
    THEN LET r == OutboundTrojan(connBuff, respArr)
         IN  [same EXCEPT !.panic = r.panic, !.connBuff = r.connBuff]
    ELSE same

\* handleOutboundData past its latch (lines 200-231): the first buffer.
OutboundFirst(connBuff) ==
    LET respArr == ScanLines(connBuff)
        same == [panic |-> FALSE, connBuff |-> connBuff,
                 lInitialized |-> TRUE, wsUpgradeInitialized |-> wsUpgradeInitialized]
    IN
    IF serverProxyMode
    THEN IF DoUpgrade(respArr)
         THEN [same EXCEPT !.connBuff = SwitchingProtocols, !.wsUpgradeInitialized = TRUE]
         ELSE same
    ELSE IF proxyKind = "ssh"
    THEN LET r == OutboundSsh(connBuff, respArr)
         IN  [same EXCEPT !.panic = r.panic, !.connBuff = r.connBuff]
    ELSE IF proxyKind = "trojan"
    THEN LET r == OutboundTrojan(connBuff, respArr)
         IN  [same EXCEPT !.panic = r.panic, !.connBuff = r.connBuff]
    ELSE same

\* Mutant of handleOutboundData: the latch lInitialized is not consulted.
handleOutboundData_NoLatch(connBuff) == OutboundFirst(connBuff)

\* handleOutboundData(src, dst, &connBuff)
handleOutboundData(connBuff) ==
    IF lInitialized
    THEN [panic |-> FALSE, connBuff |-> connBuff,
          lInitialized |-> TRUE, wsUpgradeInitialized |-> wsUpgradeInitialized]
    ELSE OutboundFirst(connBuff)

\* Mutant of handleInboundData: the 101 line is replaced for every proxy kind.
handleInboundData_AnyKind(connBuff) ==
    LET respArr == ScanLines(connBuff)
        same == [panic |-> FALSE, connBuff |-> connBuff, rInitialized |-> TRUE]
    IN
    IF rInitialized
    THEN same
    ELSE IF Len(respArr) = 0
    THEN [same EXCEPT !.panic = TRUE]
    ELSE LET first == IF Contains(respArr[1], Str101)
                      THEN Replace(rPayload, CRLF, <<>>)
                      ELSE respArr[1]
             lines == [respArr EXCEPT ![1] = first]
         IN  IF ~serverProxyMode
             THEN [same EXCEPT !.connBuff = Join(lines, CRLF) \o CRLF]
             ELSE same

\* handleInboundData(src, dst, &connBuff)
handleInboundData(connBuff) ==
    LET respArr == ScanLines(connBuff)
        same == [panic |-> FALSE, connBuff |-> connBuff, rInitialized |-> TRUE]
    IN
    IF rInitialized
    THEN same
    ELSE IF Len(respArr) = 0
    THEN [same EXCEPT !.panic = TRUE]
    ELSE LET first == IF Contains(respArr[1], Str101) /\ proxyKind = "ssh"
                      THEN Replace(rPayload, CRLF, <<>>)
                      ELSE respArr[1]
             lines == [respArr EXCEPT ![1] = first]
         IN  IF ~serverProxyMode
             THEN [same EXCEPT !.connBuff = Join(lines, CRLF) \o CRLF]
             ELSE same

(***************************************************************************)
(* The accept loop configures the session, then runs Start.                *)
(***************************************************************************)
\* loopListener: the setter calls made on a new session before `go p.Start()`.
Configure ==
    /\ ~panicked
    /\ startPc = "new"
    /\ \E f \in FlagInputs, kind \in ProxyKinds, mode \in BOOLEAN :
          LET host == IF f.server # <<>> THEN SetServerHost(f.server, sHost) ELSE sHost
              sni == f.sni
          IN  /\ sHost' = host
              /\ sniHost' = sni
              /\ tlsEnabled' = f.tls
              /\ proxyKind' = kind
              /\ serverProxyMode' = mode
              /\ lPayload' = SetlPayload(TemplateConnect, host, sni)
              /\ rPayload' = SetrPayload(<<>>)
              /\ lTemplate' = TemplateConnect
              /\ rTemplate' = <<>>
              /\ lastCall' = "SetServerProxyMode"
              /\ UNCHANGED buffSize
    /\ startPc' = "start"
    /\ UNCHANGED <<hookVars, cntVars, sigVars, connVars, ioVars, tasks, procVars, wsVars, logged>>

\* Mutant of StartDial: the return after a failed dial is missing.
StartDial_NoReturn ==
    /\ ~panicked
    /\ startPc = "start"
    /\ dials' = dials + 1
    /\ \E ok \in BOOLEAN :
          /\ rConn' = (IF ok THEN "open" ELSE rConn)
          /\ startPc' = "goOutbound"
    /\ UNCHANGED <<cfgVars, hookVars, cntVars, sigVars, ioVars, lConn, lCloses, rCloses,
                   tasks, procVars, wsVars, logged>>

\* Start, lines 122-137: the deferred close of lConn is registered and the
\* remote is dialed; a failed dial returns, which runs that one deferred close.
StartDial ==
    /\ ~panicked
    /\ startPc = "start"
    /\ dials' = dials + 1
    /\ \E ok \in BOOLEAN :
          IF ok
          THEN rConn' = "open" /\ startPc' = "goOutbound"
          ELSE rConn' = rConn /\ startPc' = "closeL"
    /\ UNCHANGED <<cfgVars, hookVars, cntVars, sigVars, ioVars, lConn, lCloses, rCloses,
                   tasks, procVars, wsVars, logged>>

\* Start, line 141: go p.handleForwardData(p.lConn, p.rConn)
StartGoOutbound ==
    /\ ~panicked
    /\ startPc = "goOutbound"
    /\ tasks' = Append(tasks, NewTask("l", "r"))
    /\ startPc' = "goInbound"
    /\ UNCHANGED <<cfgVars, hookVars, cntVars, sigVars, connVars, ioVars, procVars, wsVars, logged>>

\* Mutant of StartGoInbound: the inbound task is started in server mode too.
StartGoInbound_Always ==
    /\ ~panicked
    /\ startPc = "goInbound"
    /\ tasks' = Append(tasks, NewTask("r", "l"))
    /\ startPc' = "recv"
    /\ UNCHANGED <<cfgVars, hookVars, cntVars, sigVars, connVars, ioVars, procVars, wsVars, logged>>

\* Start, lines 142-144: if !p.serverProxyMode { go p.handleForwardData(p.rConn, p.lConn) }
StartGoInbound ==
    /\ ~panicked
    /\ startPc = "goInbound"
    /\ tasks' = IF ~serverProxyMode THEN Append(tasks, NewTask("r", "l")) ELSE tasks
    /\ startPc' = "recv"
    /\ UNCHANGED <<cfgVars, hookVars, cntVars, sigVars, connVars, ioVars, procVars, wsVars, logged>>

\* Start, line 145: <-p.errSig
StartRecv ==
    /\ ~panicked
    /\ startPc = "recv"
    /\ Len(errSig) > 0
    /\ errSig' = Tail(errSig)
    /\ recvs' = recvs + 1
    /\ startPc' = "log"
    /\ UNCHANGED <<cfgVars, hookVars, cntVars, erred, sends, connVars, ioVars,
                   tasks, procVars, wsVars, logged>>

\* Start, line 146: the close line with the two counters.
StartLog ==
    /\ ~panicked
    /\ startPc = "log"
    /\ logged' = <<bytesSent, bytesReceived>>
    /\ startPc' = "closeR"
    /\ UNCHANGED <<cfgVars, hookVars, cntVars, sigVars, connVars, ioVars, tasks, procVars, wsVars>>

\* tcp.CloseConnection(conn): conn.Close()
CloseConnection(conn) == "closed"

\* Mutant of StartCloseR: the deferred close of rConn is missing.
StartCloseR_Missing ==
    /\ ~panicked
    /\ startPc = "closeR"
    /\ startPc' = "closeL"
    /\ UNCHANGED <<cfgVars, hookVars, cntVars, sigVars, connVars, ioVars,
                   tasks, procVars, wsVars, logged>>

\* Start returns: the deferred tcp.CloseConnection(p.rConn) runs first.
StartCloseR ==
    /\ ~panicked
    /\ startPc = "closeR"
    /\ rConn' = CloseConnection(rConn)
    /\ rCloses' = rCloses + 1
    /\ startPc' = "closeL"
    /\ UNCHANGED <<cfgVars, hookVars, cntVars, sigVars, ioVars, lConn, lCloses, dials,
                   tasks, procVars, wsVars, logged>>

\* Start returns: the deferred tcp.CloseConnection(p.lConn) runs last.
StartCloseL ==
    /\ ~panicked
    /\ startPc = "closeL"
    /\ lConn' = CloseConnection(lConn)
    /\ lCloses' = lCloses + 1
    /\ startPc' = "done"
    /\ UNCHANGED <<cfgVars, hookVars, cntVars, sigVars, ioVars, rConn, rCloses, dials,
                   tasks, procVars, wsVars, logged>>

(***************************************************************************)
(* handleForwardData, one goroutine per entry of tasks.                    *)
(***************************************************************************)
TaskIds == 1..Len(tasks)

\* The buffers the peer of stream st may deliver as the buffer after k others.
Inputs(st, k) ==
    IF k = 0
    THEN (IF st = "l" THEN LocalInputs ELSE RemoteInputs)
    ELSE (IF st = "l" THEN LaterLocalInputs ELSE LaterRemoteInputs)

\* line 162, src.Read returns n bytes and no error.
TaskReadData(i) ==
    /\ ~panicked
    /\ tasks[i].pc = "read"
    /\ Conn(tasks[i].src) = "open"
    /\ reads["l"] + reads["r"] < MaxReads
    /\ \E b \in Inputs(tasks[i].src, reads[tasks[i].src]) :
          /\ Len(b) <= buffSize
          /\ tasks' = [tasks EXCEPT ![i].rbuf = b, ![i].connBuff = b,
                                    ![i].k = reads[tasks[i].src] + 1, ![i].pc = "hook"]
    /\ reads' = [reads EXCEPT ![tasks[i].src] = @ + 1]
    /\ UNCHANGED <<cfgVars, hookVars, cntVars, sigVars, connVars, written, forwarded,
                   startPc, procVars, wsVars, logged>>

\* lines 162-167, src.Read fails on an open stream (EOF, reset): p.err() is next.
TaskReadFail(i) ==
    /\ ~panicked
    /\ tasks[i].pc = "read"
    /\ Conn(tasks[i].src) = "open"
    /\ tasks' = [tasks EXCEPT ![i].pc = "errCheck"]
    /\ UNCHANGED <<cfgVars, hookVars, cntVars, sigVars, connVars, ioVars,
                   startPc, procVars, wsVars, logged>>

\* lines 162-167, src.Read fails because Start closed the stream.
TaskReadClosed(i) ==
    /\ ~panicked
    /\ tasks[i].pc = "read"
    /\ Conn(tasks[i].src) = "closed"
    /\ tasks' = [tasks EXCEPT ![i].pc = "errCheck"]
    /\ UNCHANGED <<cfgVars, hookVars, cntVars, sigVars, connVars, ioVars,
                   startPc, procVars, wsVars, logged>>

\* lines 168-173: isLocal selects the hook; a panic in it is not recovered
\* anywhere, so it ends the process and with it every other session the
\* accept loop has started.
TaskHook(i) ==
    /\ ~panicked
    /\ tasks[i].pc = "hook"
    /\ IF tasks[i].src = "l"
       THEN LET r == handleOutboundData(tasks[i].connBuff) IN
            /\ panicked' = r.panic
            /\ IF r.panic
               THEN UNCHANGED <<tasks, hookVars>>
               ELSE /\ tasks' = [tasks EXCEPT ![i].connBuff = r.connBuff, ![i].pc = "write"]
                    /\ lInitialized' = r.lInitialized
                    /\ wsUpgradeInitialized' = r.wsUpgradeInitialized
                    /\ UNCHANGED rInitialized
       ELSE LET r == handleInboundData(tasks[i].connBuff) IN
            /\ panicked' = r.panic
            /\ IF r.panic
               THEN UNCHANGED <<tasks, hookVars>>
               ELSE /\ tasks' = [tasks EXCEPT ![i].connBuff = r.connBuff, ![i].pc = "write"]
                    /\ rInitialized' = r.rInitialized
                    /\ UNCHANGED <<lInitialized, wsUpgradeInitialized>>
    /\ otherSession' = (IF panicked' THEN "exited" ELSE otherSession)
    /\ UNCHANGED <<cfgVars, cntVars, sigVars, connVars, ioVars, startPc, logged, wsVars>>

\* Mutant of Relink: line 174 tests the mode only, not the flag.
Relink_ModeOnly == serverProxyMode

\* line 174: the re-link branch is taken.
Relink == serverProxyMode /\ wsUpgradeInitialized

\* Mutant of WriteTarget: the re-link branch writes to dst as well.
WriteTarget_Dst(t) == t.dst

\* lines 174-180: the stream the buffer is written to.
WriteTarget(t) == IF Relink THEN t.src ELSE t.dst

\* The (n, err) results Write(b) on stream st may return: all of b and no
\* error, or an error with nothing or only a part of b written; only the
\* error on a closed stream.
WriteResults(st, b) ==
    (IF Conn(st) = "open" THEN {[n |-> Len(b), ok |-> TRUE]} ELSE {})
    \cup {[n |-> 0, ok |-> FALSE]}
    \cup (IF Conn(st) = "open" /\ Len(b) > 1 THEN {[n |-> Len(b) - 1, ok |-> FALSE]} ELSE {})

\* lines 175 / 179: n, err = Write(connBuff).
TaskWrite(i) ==
    /\ ~panicked
    /\ tasks[i].pc = "write"
    /\ LET t == tasks[i]
           to == WriteTarget(t)
       IN  \E res \in WriteResults(to, t.connBuff) :
            LET ok == res.ok IN
              /\ tasks' = [tasks EXCEPT ![i].n = res.n,
                                        ![i].werr = ~ok,
                                        ![i].wto = to,
                                        ![i].pc = IF Relink THEN "clear" ELSE "check"]
              /\ written' = [written EXCEPT ![to] = IF ok THEN @ + Len(t.connBuff) ELSE @]
              /\ forwarded' = [forwarded EXCEPT ![t.src] = IF ok THEN @ + Len(t.rbuf) ELSE @]
    /\ UNCHANGED <<cfgVars, hookVars, cntVars, sigVars, connVars, reads,
                   startPc, procVars, wsVars, logged>>

\* Mutant of TaskClear: the flag is left set.
TaskClear_NoClear(i) ==
    /\ ~panicked
    /\ tasks[i].pc = "clear"
    /\ tasks' = [tasks EXCEPT ![i].pc = "spawn"]
    /\ UNCHANGED <<cfgVars, hookVars, cntVars, sigVars, connVars, ioVars,
                   startPc, procVars, wsVars, logged>>

\* line 176: p.wsUpgradeInitialized = false
TaskClear(i) ==
    /\ ~panicked
    /\ tasks[i].pc = "clear"
    /\ wsUpgradeInitialized' = FALSE
    /\ tasks' = [tasks EXCEPT ![i].pc = "spawn"]
    /\ UNCHANGED <<cfgVars, lInitialized, rInitialized, cntVars, sigVars, connVars, ioVars,
                   startPc, procVars, wsVars, logged>>

\* line 177: go p.handleForwardData(dst, src)
TaskSpawn(i) ==
    /\ ~panicked
    /\ tasks[i].pc = "spawn"
    /\ tasks' = Append([tasks EXCEPT ![i].pc = "check"],
                       NewTask(tasks[i].dst, tasks[i].src))
    /\ UNCHANGED <<cfgVars, hookVars, cntVars, sigVars, connVars, ioVars,
                   startPc, procVars, wsVars, logged>>

\* Mutant of TaskCheck: the counters are swapped (isLocal inverted).
TaskCheck_Swapped(i) ==
    /\ ~panicked
    /\ tasks[i].pc = "check"
    /\ LET t == tasks[i] IN
       IF t.werr
       THEN /\ tasks' = [tasks EXCEPT ![i].pc = "errCheck", ![i].rbuf = <<>>,
                                      ![i].connBuff = <<>>, ![i].n = 0, ![i].wto = "nil"]
            /\ UNCHANGED cntVars
       ELSE /\ tasks' = [tasks EXCEPT ![i].pc = "read", ![i].rbuf = <<>>,
                                      ![i].connBuff = <<>>, ![i].n = 0, ![i].wto = "nil"]
            /\ IF t.src # "l"
               THEN bytesSent' = bytesSent + t.n /\ UNCHANGED bytesReceived
               ELSE bytesReceived' = bytesReceived + t.n /\ UNCHANGED bytesSent
    /\ UNCHANGED <<cfgVars, hookVars, sigVars, connVars, ioVars, startPc, procVars, wsVars, logged>>

\* Mutant of TaskCheck: the counter is updated before the error check.
TaskCheck_CountFirst(i) ==
    /\ ~panicked
    /\ tasks[i].pc = "check"
    /\ LET t == tasks[i] IN
       /\ tasks' = [tasks EXCEPT ![i].pc = IF t.werr THEN "errCheck" ELSE "read",
                                 ![i].rbuf = <<>>, ![i].connBuff = <<>>,
                                 ![i].n = 0, ![i].wto = "nil"]
       /\ IF t.src = "l"
          THEN bytesSent' = bytesSent + t.n /\ UNCHANGED bytesReceived
          ELSE bytesReceived' = bytesReceived + t.n /\ UNCHANGED bytesSent
    /\ UNCHANGED <<cfgVars, hookVars, sigVars, connVars, ioVars, startPc, procVars, wsVars, logged>>

\* lines 181-191: a write error leads to p.err(); otherwise the counter of
\* the task's direction grows by n and the loop reads again.
TaskCheck(i) ==
    /\ ~panicked
    /\ tasks[i].pc = "check"
    /\ LET t == tasks[i] IN
       IF t.werr
       THEN /\ tasks' = [tasks EXCEPT ![i].pc = "errCheck", ![i].rbuf = <<>>,
                                      ![i].connBuff = <<>>, ![i].n = 0, ![i].wto = "nil"]
            /\ UNCHANGED cntVars
       ELSE /\ tasks' = [tasks EXCEPT ![i].pc = "read", ![i].rbuf = <<>>,
                                      ![i].connBuff = <<>>, ![i].n = 0, ![i].wto = "nil"]
            /\ IF t.src = "l"
               THEN bytesSent' = bytesSent + t.n /\ UNCHANGED bytesReceived
               ELSE bytesReceived' = bytesReceived + t.n /\ UNCHANGED bytesSent
    /\ UNCHANGED <<cfgVars, hookVars, sigVars, connVars, ioVars, startPc, procVars, wsVars, logged>>

(***************************************************************************)
(* err(), in three steps: the fields erred and errSig are shared by the    *)
(* goroutines without any lock.                                            *)
(***************************************************************************)
\* The values the unsynchronised read of p.erred may return: the write of
\* another goroutine is concurrent with it, so the initial false is visible
\* as well as the current value.
ErredSeen == {erred, FALSE}

\* lines 150-152: if p.erred { return }
TaskErrCheck(i) ==
    /\ ~panicked
    /\ tasks[i].pc = "errCheck"
    /\ \E seen \in ErredSeen :
          tasks' = [tasks EXCEPT ![i].pc = IF seen THEN "done" ELSE "errSend"]
    /\ UNCHANGED <<cfgVars, hookVars, cntVars, sigVars, connVars, ioVars,
                   startPc, procVars, wsVars, logged>>

\* line 153: p.errSig <- true (blocks while the channel is full)
TaskErrSend(i) ==
    /\ ~panicked
    /\ tasks[i].pc = "errSend"
    /\ Len(errSig) < ErrSigCap
    /\ errSig' = Append(errSig, TRUE)
    /\ sends' = sends + 1
    /\ tasks' = [tasks EXCEPT ![i].pc = "errSet"]
    /\ UNCHANGED <<cfgVars, hookVars, cntVars, erred, recvs, connVars, ioVars,
                   startPc, procVars, wsVars, logged>>

\* Mutant of TaskErrSet: the caller does not return after p.err().
TaskErrSet_NoReturn(i) ==
    /\ ~panicked
    /\ tasks[i].pc = "errSet"
    /\ erred' = TRUE
    /\ tasks' = [tasks EXCEPT ![i].pc = "read"]
    /\ UNCHANGED <<cfgVars, hookVars, cntVars, errSig, sends, recvs, connVars, ioVars,
                   startPc, procVars, wsVars, logged>>

\* line 154: p.erred = true
TaskErrSet(i) ==
    /\ ~panicked
    /\ tasks[i].pc = "errSet"
    /\ erred' = TRUE
    /\ tasks' = [tasks EXCEPT ![i].pc = "done"]
    /\ UNCHANGED <<cfgVars, hookVars, cntVars, errSig, sends, recvs, connVars, ioVars,
                   startPc, procVars, wsVars, logged>>

(***************************************************************************)
(* The specification.                                                      *)
(***************************************************************************)
StartStep ==
    \/ StartDial
    \/ StartGoOutbound
    \/ StartGoInbound
    \/ StartRecv
    \/ StartLog
    \/ StartCloseR
    \/ StartCloseL

Next ==
    \/ Configure
    \/ StartDial
    \/ StartGoOutbound
    \/ StartGoInbound
    \/ StartRecv
    \/ StartLog
    \/ StartCloseR
    \/ StartCloseL
    \/ \E i \in TaskIds : TaskReadData(i)
    \/ \E i \in TaskIds : TaskReadFail(i)
    \/ \E i \in TaskIds : TaskReadClosed(i)
    \/ \E i \in TaskIds : TaskHook(i)
    \/ \E i \in TaskIds : TaskWrite(i)
    \/ \E i \in TaskIds : TaskClear(i)
    \/ \E i \in TaskIds : TaskSpawn(i)
    \/ \E i \in TaskIds : TaskCheck(i)
    \/ \E i \in TaskIds : TaskErrCheck(i)
    \/ \E i \in TaskIds : TaskErrSend(i)
    \/ \E i \in TaskIds : TaskErrSet(i)

Spec == Init /\ [][Next]_vars

(***************************************************************************)
(* The setters called one at a time, in any order and any number of times, *)
(* on a session that has not been started.                                 *)
(***************************************************************************)
CallSetServerHost ==
    /\ startPc = "new"
    /\ \E server \in ServerInputs : sHost' = SetServerHost(server, sHost)
    /\ lastCall' = "SetServerHost"
    /\ UNCHANGED buffSize
    /\ UNCHANGED <<serverProxyMode, proxyKind, tlsEnabled, sniHost, lPayload, rPayload,
                   lTemplate, rTemplate>>
    /\ UNCHANGED <<hookVars, cntVars, sigVars, connVars, ioVars, startPc, tasks, procVars, wsVars, logged>>

CallSetSNIHost ==
    /\ startPc = "new"
    /\ \E hostname \in SniInputs : sniHost' = hostname
    /\ lastCall' = "SetSNIHost"
    /\ UNCHANGED buffSize
    /\ UNCHANGED <<serverProxyMode, proxyKind, tlsEnabled, sHost, lPayload, rPayload,
                   lTemplate, rTemplate>>
    /\ UNCHANGED <<hookVars, cntVars, sigVars, connVars, ioVars, startPc, tasks, procVars, wsVars, logged>>

CallSetlPayload ==
    /\ startPc = "new"
    /\ \E template \in LTemplateInputs :
          /\ lPayload' = SetlPayload(template, sHost, sniHost)
          /\ lTemplate' = template
    /\ lastCall' = "SetlPayload"
    /\ UNCHANGED buffSize
    /\ UNCHANGED <<serverProxyMode, proxyKind, tlsEnabled, sniHost, sHost, rPayload, rTemplate>>
    /\ UNCHANGED <<hookVars, cntVars, sigVars, connVars, ioVars, startPc, tasks, procVars, wsVars, logged>>

CallSetrPayload ==
    /\ startPc = "new"
    /\ \E template \in RTemplateInputs :
          /\ rPayload' = SetrPayload(template)
          /\ rTemplate' = template
    /\ lastCall' = "SetrPayload"
    /\ UNCHANGED buffSize
    /\ UNCHANGED <<serverProxyMode, proxyKind, tlsEnabled, sniHost, sHost, lPayload, lTemplate>>
    /\ UNCHANGED <<hookVars, cntVars, sigVars, connVars, ioVars, startPc, tasks, procVars, wsVars, logged>>

CallSetProxyKind ==
    /\ startPc = "new"
    /\ \E kind \in ProxyKinds : proxyKind' = kind
    /\ lastCall' = "SetProxyKind"
    /\ UNCHANGED buffSize
    /\ UNCHANGED <<serverProxyMode, tlsEnabled, sniHost, sHost, lPayload, rPayload,
                   lTemplate, rTemplate>>
    /\ UNCHANGED <<hookVars, cntVars, sigVars, connVars, ioVars, startPc, tasks, procVars, wsVars, logged>>

CallSetEnableTLS ==
    /\ startPc = "new"
    /\ \E enabled \in BOOLEAN : tlsEnabled' = enabled
    /\ lastCall' = "SetEnableTLS"
    /\ UNCHANGED buffSize
    /\ UNCHANGED <<serverProxyMode, proxyKind, sniHost, sHost, lPayload, rPayload,
                   lTemplate, rTemplate>>
    /\ UNCHANGED <<hookVars, cntVars, sigVars, connVars, ioVars, startPc, tasks, procVars, wsVars, logged>>

CallSetBufferSize ==
    /\ startPc = "new"
    /\ \E size \in BuffSizeInputs : buffSize' = size
    /\ lastCall' = "SetBufferSize"
    /\ UNCHANGED <<serverProxyMode, proxyKind, tlsEnabled, sniHost, sHost, lPayload, rPayload,
                   lTemplate, rTemplate>>
    /\ UNCHANGED <<hookVars, cntVars, sigVars, connVars, ioVars, startPc, tasks, procVars, wsVars, logged>>

CallSetServerProxyMode ==
    /\ startPc = "new"
    /\ \E enabled \in BOOLEAN : serverProxyMode' = enabled
    /\ lastCall' = "SetServerProxyMode"
    /\ UNCHANGED buffSize
    /\ UNCHANGED <<proxyKind, tlsEnabled, sniHost, sHost, lPayload, rPayload,
                   lTemplate, rTemplate>>
    /\ UNCHANGED <<hookVars, cntVars, sigVars, connVars, ioVars, startPc, tasks, procVars, wsVars, logged>>

SetterNext ==
    \/ CallSetServerHost
    \/ CallSetSNIHost
    \/ CallSetlPayload
    \/ CallSetrPayload
    \/ CallSetProxyKind
    \/ CallSetEnableTLS
    \/ CallSetBufferSize
    \/ CallSetServerProxyMode

SetterSpec == Init /\ [][SetterNext]_vars

(***************************************************************************)
(* The WebSocket web server (src/cmd/ws-web-server/main.go).               *)
(***************************************************************************)
\* Values of the -d flag, of the Host of a request, of its Upgrade header
\* (empty: no such header).
DomainInputs == {StrStar, DomainList, HostA}

HostInputs == {HostA, HostB, HostC}

UpgradeInputs == {StrWebsocket, UpgradeMixed, UpgradeH2c, <<>>}

\* isWebsocket(r), given r.Header.Get("Upgrade")
isWebsocket(connUpgrade) == ToLower(connUpgrade) = StrWebsocket

\* mainHandler, lines 98-106: domainInvalid after the loop over the allowed domains.
domainInvalid(host, dom) ==
    IF dom # StrStar
    THEN LET allowed == Split(dom, StrComma)
         IN  ~(\E k \in 1..Len(allowed) : host = allowed[k])
    ELSE TRUE

\* mainHandler(w, r): what the request gets, given its Upgrade header, its
\* Host, and whether websocketProxy's dial of the backend succeeds.
mainHandler(connUpgrade, host, dialOk) ==
    IF ~isWebsocket(connUpgrade) THEN "NotWebsocket"
    ELSE IF domainInvalid(host, domain) THEN "DomainNotAllowed"
    ELSE IF ~dialOk THEN "BackendError"
    ELSE "Proxied"

\* main: flag.Parse, then the two servers are started.
WsMain ==
    /\ wsPc = "main"
    /\ \E d \in DomainInputs : domain' = d
    /\ wsPc' = "serving"
    /\ UNCHANGED wsLog
    /\ UNCHANGED <<cfgVars, hookVars, cntVars, sigVars, connVars, ioVars,
                   startPc, tasks, procVars, logged>>

\* A request is handled by mainHandler.
WsServe ==
    /\ wsPc = "serving"
    /\ Len(wsLog) < MaxRequests
    /\ \E connUpgrade \in UpgradeInputs, host \in HostInputs, dialOk \in BOOLEAN :
          wsLog' = Append(wsLog, [upgrade |-> connUpgrade, host |-> host,
                                  outcome |-> mainHandler(connUpgrade, host, dialOk)])
    /\ UNCHANGED <<wsPc, domain>>
    /\ UNCHANGED <<cfgVars, hookVars, cntVars, sigVars, connVars, ioVars,
                   startPc, tasks, procVars, logged>>

WsNext ==
    \/ WsMain
    \/ WsServe

WsSpec == Init /\ [][WsNext]_vars

(***************************************************************************)
(* Scheduling: the Go scheduler runs every runnable goroutine, and a Read  *)
(* or Write on a stream Start has closed returns its error.  What the      *)
(* peers do on an open stream (deliver data, reset it) is not forced.      *)
(***************************************************************************)
\* The steps of task i the scheduler alone decides.
TaskRun(i) ==
    \/ TaskReadClosed(i)
    \/ TaskHook(i)
    \/ TaskWrite(i)
    \/ TaskClear(i)
    \/ TaskSpawn(i)
    \/ TaskCheck(i)
    \/ TaskErrCheck(i)
    \/ TaskErrSend(i)
    \/ TaskErrSet(i)

\* A step the session takes without waiting for a peer.
Runnable ==
    \/ Configure
    \/ StartStep
    \/ \E i \in TaskIds : TaskRun(i)

\* Start cannot take a step: it has returned, or it waits on an empty errSig.
StartAtRest == startPc = "done" \/ (startPc = "recv" /\ Len(errSig) = 0)

\* Task i cannot take a step of its own: it has returned, it waits in Read
\* on an open stream, or it waits to send on a full errSig.
TaskAtRest(i) ==
    \/ tasks[i].pc = "done"
    \/ tasks[i].pc = "read" /\ Conn(tasks[i].src) = "open"
    \/ tasks[i].pc = "errSend" /\ Len(errSig) >= ErrSigCap

\* No goroutine of the session can take a step of its own: the process has
\* exited in a panic, or Start and every task are at rest.
AtRest == panicked \/ (StartAtRest /\ \A i \in TaskIds : TaskAtRest(i))

(***************************************************************************)
(* Properties.                                                             *)
(***************************************************************************)
\* Task i is inside err() or has left it.
InErr(i) == tasks[i].pc \in {"errCheck", "errSend", "errSet"}

\* C1: whatever the interleaving of the failing tasks, at most one value is
\* sent on errSig in a session.
C1_AtMostOneSend == sends <= 1

\* C2: after a successful dial Start receives from errSig exactly once and then
\* closes the remote and the local stream exactly once each; the streams are
\* closed by steps of Start only, never by a forwarding task.
C2_State ==
    /\ recvs <= 1 /\ lCloses <= 1 /\ rCloses <= 1
    /\ (rCloses > 0 \/ (lCloses > 0 /\ rConn # "nil")) => recvs = 1
    /\ (lCloses > 0 /\ rConn # "nil") => rCloses = 1
    /\ (startPc = "done" /\ rConn # "nil") =>
          /\ recvs = 1 /\ lCloses = 1 /\ rCloses = 1
          /\ lConn = "closed" /\ rConn = "closed"

C2_Step ==
    (<<lConn, rConn, lCloses, rCloses>>' # <<lConn, rConn, lCloses, rCloses>>
       /\ startPc # "start")
    => /\ startPc \in {"closeR", "closeL"}
       /\ startPc' # startPc
       /\ tasks' = tasks

C2_ExactlyOnce == []C2_State /\ [][C2_Step]_vars

\* C2 witness: both tasks failed at once (two values were sent) and Start
\* has returned after a successful dial.
C2_Witness == startPc = "done" /\ rConn = "closed" /\ sends = 2

\* C3: Start dials once; when the dial fails no forwarding task is started,
\* Start does not wait on errSig, the local stream is closed exactly once and
\* the remote stream is not closed.
DialFailed == dials = 1 /\ rConn = "nil"

C3_DialFailure ==
    /\ dials <= 1
    /\ (startPc \in {"new", "start"}) = (dials = 0)
    /\ DialFailed =>
          /\ tasks = <<>>
          /\ startPc \in {"closeL", "done"}
          /\ recvs = 0 /\ sends = 0
          /\ rCloses = 0
          /\ lCloses = (IF startPc = "done" THEN 1 ELSE 0)
          /\ lConn = (IF startPc = "done" THEN "closed" ELSE "open")

\* C3 witness: the dial failed and Start has returned.
C3_Witness == DialFailed /\ startPc = "done" /\ lCloses = 1

\* Some forwarding task has hit a read or write error.
AnyErr == \E i \in TaskIds : InErr(i) \/ tasks[i].pc = "done"

\* Start has returned with both streams closed and every forwarding task
\* that was started has returned.
ShutDown ==
    /\ startPc = "done"
    /\ lConn = "closed" /\ rConn = "closed"
    /\ \A i \in TaskIds : tasks[i].pc = "done"

\* C4: under fair scheduling, once a forwarding task has hit a read or write
\* error, Start eventually returns with both streams closed and every
\* forwarding task of the session eventually returns.  Every step of a
\* session makes progress (no step is ever repeated), so this says that a
\* session with a failed task cannot come to rest, no step of its own left
\* to take, before it is shut down.
C4_EventualShutdown == (AnyErr /\ AtRest) => ShutDown

\* Apart from a panic in a hook, a session with a failed task does not come
\* to rest before it is shut down.
C4_ShutdownUnlessPanic == (AnyErr /\ ~panicked /\ AtRest) => ShutDown

\* At rest, no step of the session's own is taken.
AtRestIsAtRest == [][AtRest => ~Runnable]_vars

\* Task i holds a buffer it has read and passed through its hook.
Holding(i) == tasks[i].pc \in {"write", "clear", "spawn", "check"}

\* C5: in each direction only the first buffer is inspected or changed by
\* the rewrite hook: the second and later buffers are written as they were
\* read, to the task's destination, the hook neither panics on them nor
\* changes a flag for them, and a latch that is true stays true.
C5_State ==
    \A i \in TaskIds :
        (Holding(i) /\ tasks[i].k >= 2) =>
            /\ tasks[i].connBuff = tasks[i].rbuf
            /\ tasks[i].pc \in {"write", "check"}
            /\ tasks[i].pc = "check" => tasks[i].wto = tasks[i].dst

C5_Step ==
    /\ lInitialized => lInitialized'
    /\ rInitialized => rInitialized'
    /\ (\A i \in TaskIds : tasks[i].pc = "hook" => tasks[i].k >= 2) =>
          /\ lInitialized' = lInitialized
          /\ rInitialized' = rInitialized
          /\ panicked' = panicked
          /\ wsUpgradeInitialized' => wsUpgradeInitialized

C5_FirstBufferOnly == []C5_State /\ [][C5_Step]_vars

\* C5 witness: in client mode with kind ssh a CONNECT request arrived as the
\* second local buffer and was written to the remote as it was read.
C5_Witness ==
    /\ ~serverProxyMode /\ proxyKind = "ssh"
    /\ \E i \in TaskIds :
          /\ tasks[i].src = "l" /\ tasks[i].k = 2 /\ tasks[i].pc = "check"
          /\ ~tasks[i].werr
          /\ tasks[i].rbuf = BufConnect /\ tasks[i].connBuff = BufConnect

\* Task i is in the re-link branch (lines 175-177), its Write done.
Relinking(i) == tasks[i].pc \in {"clear", "spawn"}

\* C6 as stated: the re-link branch writes the 101 response to the task's
\* destination stream.
C6_WritesToDestination ==
    \A i \in TaskIds : Relinking(i) => tasks[i].wto = tasks[i].dst

\* C6 as amended: in server mode, when the outbound hook has flagged the
\* first local buffer, the task writes the 101 response to its source stream
\* (the local stream), then clears the flag, then starts exactly one task for
\* the reverse direction (destination, source), all before its next read.
C6_State ==
    /\ \A i \in TaskIds :
          Relinking(i) =>
             /\ serverProxyMode
             /\ tasks[i].src = "l" /\ tasks[i].k = 1
             /\ tasks[i].connBuff = SwitchingProtocols
             /\ tasks[i].wto = tasks[i].src
             /\ wsUpgradeInitialized = (tasks[i].pc = "clear")
             /\ \A j \in TaskIds : tasks[j].src # "r"
    /\ \A i \in TaskIds :
          (serverProxyMode /\ tasks[i].src = "l" /\ tasks[i].pc = "write" /\ tasks[i].k = 1) =>
             (wsUpgradeInitialized = (tasks[i].connBuff = SwitchingProtocols))
    /\ \A i \in TaskIds :
          (serverProxyMode /\ tasks[i].src = "l" /\ tasks[i].pc = "check"
             /\ tasks[i].wto = "l") =>
             /\ tasks[i].k = 1
             /\ ~wsUpgradeInitialized
             /\ Cardinality({j \in TaskIds : tasks[j].src = "r"}) = 1
    /\ serverProxyMode => Cardinality({j \in TaskIds : tasks[j].src = "r"}) <= 1

C6_Step ==
    (serverProxyMode /\ Len(tasks') # Len(tasks) /\ Len(tasks) >= 1) =>
        \E i \in TaskIds :
            /\ tasks[i].pc = "spawn" /\ tasks'[i].pc = "check"
            /\ tasks' = Append([tasks EXCEPT ![i].pc = "check"],
                               NewTask(tasks[i].dst, tasks[i].src))

C6_RelinkOrder == []C6_State /\ [][C6_Step]_vars

\* C6 witness: the 101 response was written to the local stream, the flag is
\* cleared and the reverse task exists, the outbound task not yet reading again.
C6_Witness ==
    /\ serverProxyMode /\ ~wsUpgradeInitialized
    /\ \E i, j \in TaskIds :
          /\ tasks[i].src = "l" /\ tasks[i].pc = "check" /\ ~tasks[i].werr
          /\ tasks[i].wto = "l" /\ tasks[i].connBuff = SwitchingProtocols
          /\ tasks[j].src = "r" /\ tasks[j].dst = "l"

\* Two bytes are equal up to the case of an ASCII letter.
FoldEq(x, y) ==
    \/ x = y
    \/ x \in 65..90 /\ y = x + 32
    \/ y \in 65..90 /\ x = y + 32

\* b holds "upgrade: websocket" in some mix of cases (the text has no line
\* terminator in it, so an occurrence lies within one line).
HasUpgradeHeader(b) ==
    \E i \in 1..Len(b) :
        /\ i + Len(StrUpgradeWebsocket) - 1 <= Len(b)
        /\ \A j \in 1..Len(StrUpgradeWebsocket) : FoldEq(b[i + j - 1], StrUpgradeWebsocket[j])

\* C7: in server mode the outbound hook replaces the first local buffer by
\* the fixed 101 response and sets wsUpgradeInitialized exactly when the
\* buffer has an "upgrade: websocket" line in any case; otherwise buffer and
\* flag are left alone, for every proxy kind.
C7_ServerUpgrade ==
    \A i \in TaskIds :
        (serverProxyMode /\ tasks[i].src = "l" /\ tasks[i].k = 1 /\ tasks[i].pc = "write") =>
            IF HasUpgradeHeader(tasks[i].rbuf)
            THEN tasks[i].connBuff = SwitchingProtocols /\ wsUpgradeInitialized
            ELSE tasks[i].connBuff = tasks[i].rbuf /\ ~wsUpgradeInitialized

\* C7 witness: server mode with kind ssh, the first local buffer carries
\* "Upgrade: WebSocket" and has been replaced by the 101 response.
C7_Witness ==
    /\ serverProxyMode /\ proxyKind = "ssh" /\ wsUpgradeInitialized
    /\ \E i \in TaskIds :
          /\ tasks[i].src = "l" /\ tasks[i].k = 1 /\ tasks[i].pc = "write"
          /\ tasks[i].rbuf = BufUpgrade /\ tasks[i].connBuff = SwitchingProtocols

\* The session is past configuration with the plain proxy kind and no
\* WebSocket upgrade has been detected in it.
PlainNoUpgrade ==
    /\ startPc # "new"
    /\ proxyKind = ""
    /\ ~wsUpgradeInitialized
    /\ \A i \in TaskIds : ~Relinking(i) /\ ~(tasks[i].src = "l" /\ tasks[i].wto = "l")
    /\ serverProxyMode => \A i \in TaskIds : tasks[i].src # "r"

\* Bytes of a successful Write of the tasks reading stream st that their
\* counter does not hold yet (the Write returned, line 187 is next).
RECURSIVE PendingFrom(_, _)
PendingFrom(st, i) ==
    IF i > Len(tasks) THEN 0
    ELSE (IF tasks[i].src = st /\ tasks[i].pc = "check" /\ ~tasks[i].werr
          THEN tasks[i].n ELSE 0) + PendingFrom(st, i + 1)

Pending(st) == PendingFrom(st, 1)

\* C8 as stated: with the plain kind and no upgrade, in both modes, bytesSent
\* is the number of bytes read from the local stream and written to the
\* remote one, bytesReceived the number read from the remote stream and
\* written to the local one, and the bytes written are the bytes read.
C8_Conservation ==
    PlainNoUpgrade =>
        /\ bytesSent + Pending("l") = forwarded["l"]
        /\ forwarded["l"] = written["r"]
        /\ bytesReceived + Pending("r") = forwarded["r"]
        /\ forwarded["r"] = written["l"]
        /\ \A i \in TaskIds : Holding(i) => tasks[i].connBuff = tasks[i].rbuf

\* b with every line terminator ("\n" or "\r\n") written as "\r\n" and its
\* last line terminated by "\r\n".
RECURSIVE Reserialised(_)
Reserialised(b) ==
    LET i == Index(b, <<10>>) IN
    IF Len(b) = 0 THEN <<>>
    ELSE IF i = 0 THEN DropCR(b) \o CRLF
    ELSE DropCR(SubSeq(b, 1, i - 1)) \o CRLF \o Reserialised(Drop(b, i + 1))

\* C8 as amended: with the plain kind and no upgrade, bytesSent is the number
\* of bytes read from the local stream and written, unchanged, to the remote
\* one; bytesReceived is the number of bytes written to the local stream,
\* which are the bytes read from the remote stream except for the first
\* remote buffer in client mode, written with its lines re-joined by "\r\n"
\* and a trailing "\r\n".  (A counter takes up a Write in the task's next step.)
C8_Counters ==
    PlainNoUpgrade =>
        /\ bytesSent + Pending("l") = forwarded["l"]
        /\ forwarded["l"] = written["r"]
        /\ bytesReceived + Pending("r") = written["l"]
        /\ \A i \in TaskIds :
              Holding(i) =>
                 IF tasks[i].src = "l" \/ serverProxyMode \/ tasks[i].k >= 2
                 THEN tasks[i].connBuff = tasks[i].rbuf
                 ELSE tasks[i].connBuff = Reserialised(tasks[i].rbuf)

\* C8 witness: client mode, plain kind: the first remote buffer "abc" was
\* written to the local stream as 5 bytes, and local bytes were forwarded too.
C8_Witness ==
    /\ PlainNoUpgrade /\ ~serverProxyMode /\ bytesSent > 0
    /\ \E i \in TaskIds :
          /\ tasks[i].src = "r" /\ tasks[i].k = 1 /\ tasks[i].pc = "check"
          /\ ~tasks[i].werr /\ tasks[i].rbuf = BufRaw /\ tasks[i].n = 5

\* C9: the counters never decrease; a counter changes only in the step of a
\* task that follows its successful Write, by the n the Write returned (the
\* length of the buffer after the hook); the step after a failed Read or
\* Write leaves both counters as they were.
C9_State ==
    \A i \in TaskIds :
        (tasks[i].pc = "check" /\ ~tasks[i].werr) => tasks[i].n = Len(tasks[i].connBuff)

C9_Step ==
    /\ bytesSent' >= bytesSent
    /\ bytesReceived' >= bytesReceived
    /\ <<bytesSent, bytesReceived>>' # <<bytesSent, bytesReceived>> =>
          \E i \in TaskIds :
              /\ tasks[i].pc = "check" /\ ~tasks[i].werr /\ tasks'[i].pc = "read"
              /\ IF tasks[i].src = "l"
                 THEN bytesSent' = bytesSent + tasks[i].n /\ bytesReceived' = bytesReceived
                 ELSE bytesReceived' = bytesReceived + tasks[i].n /\ bytesSent' = bytesSent
    /\ (\E i \in TaskIds : tasks[i].pc # "errCheck" /\ tasks'[i].pc = "errCheck") =>
          <<bytesSent, bytesReceived>>' = <<bytesSent, bytesReceived>>

C9_CountersAfterWrite == []C9_State /\ [][C9_Step]_vars

\* C9 witness: both counters have grown and a Write has failed after writing
\* a part of its buffer.
C9_Witness ==
    /\ bytesSent > 0 /\ bytesReceived > 0
    /\ \E i \in TaskIds : tasks[i].pc = "check" /\ tasks[i].werr /\ tasks[i].n > 0

\* The bytes of b before its first "\n".
FirstLine(b) == IF Index(b, <<10>>) = 0 THEN b ELSE SubSeq(b, 1, Index(b, <<10>>) - 1)

\* "CONNECT [host_port] HTTP/1.1\r\n\r\n"
ExpectUnexpanded == <<67,79,78,78,69,67,84,32,91,104,111,115,116,95,112,111,114,116,93,32,72,84,84,80,47,49,46,49,13,10,13,10>>

\* C10: in client mode with kind ssh a first local buffer whose first line
\* contains "CONNECT " is written to the remote stream as lPayload, which for
\* the template "CONNECT [host_port] HTTP/1.1[crlf][crlf]" and the server
\* example.com:22 is "CONNECT example.com:22 HTTP/1.1\r\n\r\n"; without such
\* a first line, or with the plain kind, the buffer is written as read.
C10_SshConnect ==
    \A i \in TaskIds :
        (~serverProxyMode /\ tasks[i].src = "l" /\ tasks[i].k = 1
           /\ tasks[i].pc \in {"write", "check"}) =>
            /\ tasks[i].pc = "check" => tasks[i].wto = "r"
            /\ IF proxyKind = "ssh" /\ Contains(FirstLine(tasks[i].rbuf), StrConnect)
               THEN /\ tasks[i].connBuff = lPayload
                    /\ lPayload = IF sHost = NoHost THEN ExpectUnexpanded ELSE ExpectConnect
               ELSE proxyKind \in {"ssh", ""} => tasks[i].connBuff = tasks[i].rbuf

\* C10 witness: the CONNECT request of the example was written to the remote
\* stream as "CONNECT example.com:22 HTTP/1.1\r\n\r\n".
C10_Witness ==
    /\ ~serverProxyMode /\ proxyKind = "ssh" /\ sHost.Port = 22
    /\ \E i \in TaskIds :
          /\ tasks[i].src = "l" /\ tasks[i].k = 1 /\ tasks[i].pc = "check"
          /\ ~tasks[i].werr /\ tasks[i].wto = "r"
          /\ tasks[i].rbuf = BufConnect /\ tasks[i].connBuff = ExpectConnect

\* "GET wss://cdn.example/abc HTTP/1.1\r\nHost: x\r\n\r\n"
ExpectTrojanGet == <<71,69,84,32,119,115,115,58,47,47,99,100,110,46,101,120,97,109,112,108,101,47,97,98,99,32,72,84,84,80,47,49,46,49,13,10,72,111,115,116,58,32,120,13,10,13,10>>

\* "wss://"
StrWssScheme == <<119,115,115,58,47,47>>

\* b with "wss://" and sni put in front of the request target (the bytes
\* after the first space of b), every other byte of b as it was.
TargetPrefixed(b, sni) ==
    LET sp == Index(b, StrSpace) IN
    SubSeq(b, 1, sp) \o StrWssScheme \o sni \o Drop(b, sp + 1)

\* The first line of b has a request target: a second space-delimited field
\* that is followed by a space.
HasTarget(b) ==
    LET f == Split(FirstLine(b), StrSpace) IN Len(f) >= 3

\* C11: in client mode with kind trojan the first local buffer is written
\* with its request target " <path> " replaced by " wss://<sniHost><path> ",
\* the rest of the request line and every header as they were read.
C11_TrojanRewrite ==
    \A i \in TaskIds :
        (~serverProxyMode /\ proxyKind = "trojan" /\ tasks[i].src = "l" /\ tasks[i].k = 1
           /\ tasks[i].pc \in {"write", "check"} /\ HasTarget(tasks[i].rbuf)) =>
            tasks[i].connBuff = TargetPrefixed(tasks[i].rbuf, sniHost)

\* The example of C11: with sniHost "cdn.example" the buffer
\* "GET /abc HTTP/1.1\r\nHost: x\r\n\r\n" is written as
\* "GET wss://cdn.example/abc HTTP/1.1\r\nHost: x\r\n\r\n".
TrojanExample ==
    \A i \in TaskIds :
        (~serverProxyMode /\ proxyKind = "trojan" /\ sniHost = SniExample
           /\ tasks[i].src = "l" /\ tasks[i].k = 1 /\ tasks[i].pc \in {"write", "check"}
           /\ tasks[i].rbuf = BufGet) =>
            tasks[i].connBuff = ExpectTrojanGet

\* The example of C11 is reached.
TrojanExampleReached ==
    /\ ~serverProxyMode /\ proxyKind = "trojan" /\ sniHost = SniExample
    /\ \E i \in TaskIds :
          /\ tasks[i].src = "l" /\ tasks[i].k = 1 /\ tasks[i].pc = "check"
          /\ tasks[i].rbuf = BufGet /\ tasks[i].connBuff = ExpectTrojanGet

\* "HTTP/1.1 200 Connection Established\r\n\r\n"
Expect200 == <<72,84,84,80,47,49,46,49,32,50,48,48,32,67,111,110,110,101,99,116,105,111,110,32,69,115,116,97,98,108,105,115,104,101,100,13,10,13,10>>

\* t read from left to right, each recognized token replaced by its value
\* when host / sni give it one and copied otherwise, "[crlf]" by "\r\n".
RECURSIVE Expand(_, _, _)
Expand(t, host, sni) ==
    IF Len(t) = 0 THEN <<>>
    ELSE IF MatchAt(t, 1, TokHostPort)
    THEN (IF host.HostName # <<>>
          THEN host.HostName \o <<58>> \o FormatUint(host.Port)
          ELSE TokHostPort) \o Expand(Drop(t, Len(TokHostPort) + 1), host, sni)
    ELSE IF MatchAt(t, 1, TokHost)
    THEN (IF host.HostName # <<>> THEN host.HostName ELSE TokHost)
         \o Expand(Drop(t, Len(TokHost) + 1), host, sni)
    ELSE IF MatchAt(t, 1, TokSni)
    THEN (IF sni # <<>> THEN sni ELSE TokSni) \o Expand(Drop(t, Len(TokSni) + 1), host, sni)
    ELSE IF MatchAt(t, 1, TokCrlf)
    THEN CRLF \o Expand(Drop(t, Len(TokCrlf) + 1), host, sni)
    ELSE <<t[1]>> \o Expand(Tail(t), host, sni)

\* t is made of whole tokens and of text without "[" and "]".
RECURSIVE TokensAndText(_)
TokensAndText(t) ==
    IF Len(t) = 0 THEN TRUE
    ELSE IF MatchAt(t, 1, TokHostPort) THEN TokensAndText(Drop(t, Len(TokHostPort) + 1))
    ELSE IF MatchAt(t, 1, TokHost) THEN TokensAndText(Drop(t, Len(TokHost) + 1))
    ELSE IF MatchAt(t, 1, TokSni) THEN TokensAndText(Drop(t, Len(TokSni) + 1))
    ELSE IF MatchAt(t, 1, TokCrlf) THEN TokensAndText(Drop(t, Len(TokCrlf) + 1))
    ELSE t[1] \notin {91, 93} /\ TokensAndText(Tail(t))

\* lPayload holds no token whose value is configured.
NoConfiguredToken ==
    /\ sHost.HostName # <<>> =>
          ~Contains(lPayload, TokHost) /\ ~Contains(lPayload, TokHostPort)
    /\ sniHost # <<>> => ~Contains(lPayload, TokSni)
    /\ ~Contains(lPayload, TokCrlf)

C13_FailuresAreLocal == otherSession = "running"

\* A failed dial and read and write errors do leave the other session
\* running: it is ended only by the panic of a hook.
LocalUnlessPanic ==
    /\ otherSession = "exited" <=> panicked
    /\ (DialFailed \/ AnyErr) /\ ~panicked => otherSession = "running"

\* Start is past its go statements (line 144).
Launched == startPc \in {"recv", "log", "closeR", "closeL", "done"} /\ ~DialFailed

\* The tasks reading the remote stream (the remote-to-local direction).
Inbound == {j \in TaskIds : tasks[j].src = "r"}

\* Server mode, the first local buffer is through the outbound hook, no
\* upgrade is flagged or being re-linked, and there is no inbound task.
NoReturnPath ==
    /\ serverProxyMode /\ lInitialized /\ ~wsUpgradeInitialized
    /\ \A i \in TaskIds : ~Relinking(i)
    /\ Inbound = {}

\* C14: in client mode Start launches the outbound and the inbound task; in
\* server mode it launches the outbound task alone, and an inbound task is
\* started only by the outbound task holding a first local buffer with the
\* upgrade header.  A first local buffer without the header leaves the
\* session without an inbound task for good, whatever later buffers carry.
C14_State ==
    /\ (Launched /\ ~serverProxyMode) =>
          /\ Len(tasks) = 2
          /\ tasks[1].src = "l" /\ tasks[1].dst = "r"
          /\ tasks[2].src = "r" /\ tasks[2].dst = "l"
    /\ (Launched /\ serverProxyMode) =>
          /\ Len(tasks) \in {1, 2}
          /\ tasks[1].src = "l" /\ tasks[1].dst = "r"
          /\ Len(tasks) = 2 => tasks[2].src = "r" /\ tasks[2].dst = "l"
    /\ \A i \in TaskIds :
          (serverProxyMode /\ tasks[i].src = "l" /\ tasks[i].k = 1
             /\ tasks[i].pc = "write" /\ ~HasUpgradeHeader(tasks[i].rbuf)) => NoReturnPath
    /\ \A i \in TaskIds :
          (serverProxyMode /\ tasks[i].src = "l" /\ tasks[i].k >= 2) => lInitialized

C14_Step ==
    /\ Len(tasks') # Len(tasks) =>
          \/ startPc = "goOutbound" /\ tasks' = Append(tasks, NewTask("l", "r"))
          \/ startPc = "goInbound" /\ ~serverProxyMode
               /\ tasks' = Append(tasks, NewTask("r", "l"))
          \/ \E i \in TaskIds :
               /\ serverProxyMode
               /\ tasks[i].src = "l" /\ tasks[i].k = 1
               /\ HasUpgradeHeader(tasks[i].rbuf)
               /\ Len(tasks') = Len(tasks) + 1
               /\ tasks'[Len(tasks')] = NewTask("r", "l")
    /\ (startPc = "goInbound" /\ startPc' # startPc /\ serverProxyMode) => tasks' = tasks
    /\ NoReturnPath => NoReturnPath'

C14_ReturnPath == []C14_State /\ [][C14_Step]_vars

\* C14 witness: server mode, the first local buffer had no upgrade header;
\* the second one has it and was written to the remote stream as read, and
\* the outbound task is still the only task.
C14_Witness ==
    /\ serverProxyMode /\ Launched /\ Len(tasks) = 1
    /\ tasks[1].k = 2 /\ tasks[1].pc = "check" /\ ~tasks[1].werr
    /\ tasks[1].rbuf = BufUpgrade /\ tasks[1].connBuff = BufUpgrade /\ tasks[1].wto = "r"

\* Task i is in its forwarding loop (it has not entered err()).
Alive(i) == tasks[i].pc \in {"read", "hook", "write", "clear", "spawn", "check"}

\* The forwarding tasks that read stream st.
Readers(st) == {i \in TaskIds : Alive(i) /\ tasks[i].src = st}

\* The streams the next Write of task i can go to: at the Write, the stream
\* line 174 selects; before it, the source as well when the re-link branch
\* can still be taken for the buffer; after it, the destination.
MayWrite(i) ==
    IF ~Alive(i) THEN {}
    ELSE IF tasks[i].pc = "write" THEN {WriteTarget(tasks[i])}
    ELSE IF /\ tasks[i].pc \in {"read", "hook"}
            /\ serverProxyMode
            /\ (wsUpgradeInitialized \/ (tasks[i].src = "l" /\ ~lInitialized))
    THEN {tasks[i].src, tasks[i].dst}
    ELSE {tasks[i].dst}

\* The forwarding tasks that may write stream st.
Writers(st) == {i \in TaskIds : st \in MayWrite(i)}

\* C15: each stream has at most one task reading it and at most one task
\* that may write it; the re-link starts the reverse task only when the
\* originating task's Write of the 101 response has returned, and from then
\* on the originating task writes its destination only.
C15_State ==
    \A st \in Streams :
        /\ Cardinality(Readers(st)) <= 1
        /\ Cardinality(Writers(st)) <= 1

C15_Step ==
    (Len(tasks') # Len(tasks) /\ Len(tasks) >= 1 /\ serverProxyMode) =>
        \E i \in TaskIds :
            /\ tasks[i].pc = "spawn" /\ tasks'[i].pc = "check"
            /\ tasks[i].wto = tasks[i].src
            /\ tasks'[Len(tasks')].dst = tasks[i].wto
            /\ tasks'[Len(tasks')].pc = "read"
            /\ ~wsUpgradeInitialized'

C15_OneReaderOneWriter == []C15_State /\ [][C15_Step]_vars

\* C15 witness: server mode after the re-link, both tasks are at their Write:
\* the outbound task writes the remote stream, the reverse task the local one.
C15_Witness ==
    /\ serverProxyMode /\ Len(tasks) = 2
    /\ tasks[1].pc = "write" /\ tasks[1].k = 2 /\ WriteTarget(tasks[1]) = "r"
    /\ tasks[2].pc = "write" /\ tasks[2].src = "r" /\ WriteTarget(tasks[2]) = "l"

\* C16: when the Write of the 101 response in the re-link branch has failed,
\* no task for the reverse direction is started.
C16_NoReverseAfterFailedWrite ==
    \A i \in TaskIds :
        (tasks[i].src = "l" /\ tasks[i].wto = "l" /\ tasks[i].werr) => Inbound = {}

\* The failed Write of the re-link still ends the originating task: from its
\* error check it goes into err() and never reads again.
FailedRelinkIsFatal ==
    [][\A i \in TaskIds :
          (tasks[i].pc = "check" /\ tasks[i].werr) => tasks'[i].pc \in {"check", "errCheck"}]_vars

\* Bytes of a successful Write to stream st that no counter holds yet.
RECURSIVE PendingToFrom(_, _)
PendingToFrom(st, i) ==
    IF i > Len(tasks) THEN 0
    ELSE (IF tasks[i].wto = st /\ tasks[i].pc \in {"clear", "spawn", "check"} /\ ~tasks[i].werr
          THEN tasks[i].n ELSE 0) + PendingToFrom(st, i + 1)

PendingTo(st) == PendingToFrom(st, 1)

\* C17: in every mode bytesSent is the number of bytes successfully written
\* to the remote stream and bytesReceived the number successfully written to
\* the local stream (a counter takes up a Write in the task's next steps).
C17_DirectionTagged ==
    /\ bytesSent + PendingTo("r") = written["r"]
    /\ bytesReceived + PendingTo("l") = written["l"]

\* Without a re-link the counters are direction-tagged.
TaggedWithoutRelink ==
    (\A i \in TaskIds : tasks[i].src = "l" => (tasks[i].k = 0 \/ ~Relinking(i)))
      /\ (serverProxyMode => Inbound = {})
    => C17_DirectionTagged

\* The first buffer b of stream st yields no logical line for the hook: it
\* is empty, or the trojan rewrite finds no second field in its first line.
NoLogicalLine(st, b) ==
    \/ Len(ScanLines(b)) = 0
    \/ /\ st = "l" /\ ~serverProxyMode /\ proxyKind = "trojan"
       /\ Len(Split(ScanLines(b)[1], StrSpace)) < 2

\* C19: a first buffer without a logical line passes the hook unchanged: the
\* task does not fail, the buffer goes to the Write as it was read and the
\* latch of the direction is set.
C19_PassThrough ==
    /\ ~panicked
    /\ \A i \in TaskIds :
          (tasks[i].k = 1 /\ tasks[i].pc = "write" /\ NoLogicalLine(tasks[i].src, tasks[i].rbuf)) =>
              /\ tasks[i].connBuff = tasks[i].rbuf
              /\ IF tasks[i].src = "l" THEN lInitialized ELSE rInitialized

\* Every panic comes from a first buffer without a logical line.
PanicOnlyWithoutLine ==
    [][panicked' # panicked =>
          \E i \in TaskIds :
              /\ tasks[i].pc = "hook" /\ tasks[i].k = 1
              /\ NoLogicalLine(tasks[i].src, tasks[i].rbuf)
              /\ ~(tasks[i].src = "l" /\ (serverProxyMode \/ proxyKind = ""))]_vars

\* "HTTP/1.1 200 Connection Established"
StrEstablished == <<72,84,84,80,47,49,46,49,32,50,48,48,32,67,111,110,110,101,99,116,105,111,110,32,69,115,116,97,98,108,105,115,104,101,100>>

\* "HTTP/1.1 200 Connection Established\r\nUpgrade: websocket\r\n\r\n"
Expect200Upgrade == <<72,84,84,80,47,49,46,49,32,50,48,48,32,67,111,110,110,101,99,116,105,111,110,32,69,115,116,97,98,108,105,115,104,101,100,13,10,85,112,103,114,97,100,101,58,32,119,101,98,115,111,99,107,101,116,13,10,13,10>>

\* b with the text of its first line (up to its line terminator) replaced by line.
WithFirstLine(b, line) == line \o Drop(b, Len(DropCR(FirstLine(b))) + 1)

\* C18: the first remote buffer after the inbound hook.  In server mode it is
\* the buffer read, for every first line and kind.  In client mode it is the
\* buffer's lines joined by "\r\n" with a trailing "\r\n", the first line
\* replaced by rPayload without its line terminators (here the default
\* "HTTP/1.1 200 Connection Established") when it contains " 101 " and the
\* kind is ssh, the other lines kept.
C18_InboundHook ==
    \A i \in TaskIds :
        (tasks[i].src = "r" /\ tasks[i].k = 1 /\ tasks[i].pc \in {"write", "check"}) =>
            /\ rInitialized
            /\ rPayload = Expect200
            /\ IF serverProxyMode
               THEN tasks[i].connBuff = tasks[i].rbuf
               ELSE IF proxyKind = "ssh" /\ Contains(FirstLine(tasks[i].rbuf), Str101)
               THEN tasks[i].connBuff =
                       Reserialised(WithFirstLine(tasks[i].rbuf, StrEstablished))
               ELSE tasks[i].connBuff = Reserialised(tasks[i].rbuf)
            /\ (~serverProxyMode /\ proxyKind = "ssh" /\ tasks[i].rbuf = Buf101Upgrade) =>
                  tasks[i].connBuff = Expect200Upgrade
            /\ (~serverProxyMode /\ proxyKind = "ssh" /\ tasks[i].rbuf = Buf101) =>
                  tasks[i].connBuff = Expect200

\* C18 witness: client mode, kind ssh: the first remote buffer, a 101 response
\* with a header line, was written to the local stream with its first line
\* replaced and its lines re-joined.
C18_Witness ==
    /\ ~serverProxyMode /\ proxyKind = "ssh"
    /\ \E i \in TaskIds :
          /\ tasks[i].src = "r" /\ tasks[i].k = 1 /\ tasks[i].pc = "check" /\ ~tasks[i].werr
          /\ tasks[i].wto = "l"
          /\ tasks[i].rbuf = Buf101Upgrade /\ tasks[i].connBuff = Expect200Upgrade

\* The server-mode case of C18 is reached: after a re-link, with kind ssh, a
\* 101 response from the remote was written to the local stream as read.
ServerInboundReached ==
    /\ serverProxyMode /\ proxyKind = "ssh"
    /\ \E i \in TaskIds :
          /\ tasks[i].src = "r" /\ tasks[i].k = 1 /\ tasks[i].pc = "check" /\ ~tasks[i].werr
          /\ tasks[i].rbuf = Buf101Upgrade /\ tasks[i].connBuff = Buf101Upgrade

\* The forwarding tasks in their loop.
AliveTasks == {i \in TaskIds : Alive(i)}

\* C20: a session starts at most two forwarding tasks, at most one per
\* direction, so never more than two are alive and never two of one
\* direction: in client mode the two that Start launches, in server mode the
\* outbound one and, from the re-link on, the reverse one; the re-link
\* starts a task at most once in a session.
C20_State ==
    /\ Len(tasks) <= 2
    /\ Cardinality(AliveTasks) <= 2
    /\ \A i, j \in TaskIds : (i # j) => tasks[i].src # tasks[j].src
    /\ \A i \in TaskIds : tasks[i].dst # tasks[i].src
    /\ (Launched /\ ~serverProxyMode) => Len(tasks) = 2
    /\ (Len(tasks) >= 1 /\ serverProxyMode) =>
          /\ Len(tasks) = 1 + Cardinality(Inbound)
          /\ (tasks[1].k = 0
                \/ (tasks[1].k = 1 /\ tasks[1].pc \in {"hook", "write", "clear", "spawn"}))
               => Inbound = {}
          /\ Inbound # {} => lInitialized /\ ~wsUpgradeInitialized

C20_Step ==
    (Len(tasks') # Len(tasks) /\ Len(tasks) >= 1 /\ serverProxyMode) =>
        /\ Len(tasks) = 1 /\ Len(tasks') = 2
        /\ \A i \in TaskIds : tasks[i].k = 1 /\ tasks[i].pc = "spawn"

C20_AtMostTwoTasks == []C20_State /\ [][C20_Step]_vars

\* C20 witness: server mode after the re-link; a second local buffer with the
\* upgrade header has gone through the outbound task and the session still
\* has its two tasks, both in their loop.
C20_Witness ==
    /\ serverProxyMode /\ Len(tasks) = 2 /\ AliveTasks = {1, 2}
    /\ tasks[1].k = 2 /\ tasks[1].pc = "check" /\ tasks[1].rbuf = BufUpgrade
    /\ tasks[2].src = "r" /\ tasks[2].dst = "l"

\* C21: the counters Start prints in its close line are final: once Start
\* has received from errSig and logged, no task changes bytesSent or
\* bytesReceived, so the printed values stay the values of the counters.
C21_LoggedIsFinal == logged # <<>> => logged = <<bytesSent, bytesReceived>>

\* The printed values are only a lower bound of the counters.
LoggedAtMost ==
    logged # <<>> => logged[1] <= bytesSent /\ logged[2] <= bytesReceived

\* host is one of the comma-separated entries of dom.
IsEntry(host, dom) ==
    /\ ~Contains(host, StrComma)
    /\ \E a \in 1..(Len(dom) + 1) :
          /\ MatchAt(dom, a, host)
          /\ a = 1 \/ dom[a - 1] = 44
          /\ a + Len(host) = Len(dom) + 1 \/ dom[a + Len(host)] = 44

\* The request got past the checks of mainHandler and was handed to the proxy.
Accepted(e) == e.outcome \in {"Proxied", "BackendError"}

\* C22: mainHandler rejects a request whose Upgrade header is not
\* "websocket"; an upgrade request is accepted, whatever its Host, when the
\* domain setting is "*", and with a list exactly when its Host is an entry
\* of the list; an accepted request goes to the backend proxy.
C22_HostCheck ==
    \A k \in 1..Len(wsLog) :
        LET e == wsLog[k] IN
        IF ~(ToLower(e.upgrade) = StrWebsocket)
        THEN e.outcome = "NotWebsocket"
        ELSE Accepted(e) <=> (domain = StrStar \/ IsEntry(e.host, domain))

\* With an explicit list of domains mainHandler does as C22 says.
HostCheckWithList == domain # StrStar => C22_HostCheck

\* With the domain setting "*" no request gets to the backend proxy.
StarRejectsAll ==
    domain = StrStar => \A k \in 1..Len(wsLog) : ~Accepted(wsLog[k])

\* With a list, a request for a listed host was proxied.
ListedHostProxied ==
    /\ domain = DomainList
    /\ \E k \in 1..Len(wsLog) :
          /\ wsLog[k].host = HostB /\ wsLog[k].upgrade = UpgradeMixed
          /\ wsLog[k].outcome = "Proxied"

\* A task stands at the send of err() and the channel is full.
BlockedInErr(i) == tasks[i].pc = "errSend" /\ Len(errSig) >= ErrSigCap

\* C23: err() never blocks: at most ErrSigCap values are ever sent on errSig,
\* so a task that reaches the send finds room in the channel, whatever the
\* mode and whether or not the re-link's Write failed.
C23_ErrNeverBlocks ==
    /\ sends <= ErrSigCap
    /\ Len(errSig) <= ErrSigCap
    /\ \A i \in TaskIds : ~BlockedInErr(i)

\* Server mode, the re-link's Write failed (nothing was ever written to the
\* local stream), the reverse task was started all the same, and both tasks
\* have sent on errSig.
C23_Witness ==
    /\ serverProxyMode
    /\ Len(tasks) = 2
    /\ written["l"] = 0
    /\ sends = 2

\* Client mode: both tasks have failed and sent while Start has not received yet.
BothSentBeforeRecv ==
    /\ ~serverProxyMode
    /\ Len(errSig) = 2
    /\ startPc = "recv"

\* Task i is in the re-link branch (lines 175-177) or has just left it with
\* the result of its Write to the source.
InRelinkBranch(i) ==
    \/ tasks[i].pc \in {"clear", "spawn"}
    \/ tasks[i].pc = "check" /\ tasks[i].wto = tasks[i].src

\* The flag is set: server mode, and the only task is the outbound one, with
\* its first buffer replaced by the 101 response, at the Write of line 175 or
\* between that Write and the assignment of line 176.
C24_State ==
    /\ wsUpgradeInitialized =>
          /\ serverProxyMode
          /\ Len(tasks) = 1
          /\ tasks[1].src = "l"
          /\ tasks[1].k = 1
          /\ tasks[1].connBuff = SwitchingProtocols
          /\ tasks[1].pc \in {"write", "clear"}
    /\ \A i \in TaskIds :
          /\ tasks[i].pc = "read" => ~wsUpgradeInitialized
          /\ tasks[i].src = "r" => ~wsUpgradeInitialized
          /\ InRelinkBranch(i) => (serverProxyMode /\ tasks[i].src = "l" /\ tasks[i].k = 1)

\* The flag is set by the outbound hook only and cleared by line 176 only; a
\* read never happens with the flag set.
C24_Step ==
    /\ (~wsUpgradeInitialized /\ wsUpgradeInitialized') =>
          (tasks[1].src = "l" /\ tasks[1].pc = "hook" /\ tasks'[1].pc = "write")
    /\ (wsUpgradeInitialized /\ ~wsUpgradeInitialized') =>
          (tasks[1].pc = "clear" /\ tasks'[1].pc = "spawn")
    /\ reads' # reads => ~wsUpgradeInitialized /\ ~wsUpgradeInitialized'

\* C24: wsUpgradeInitialized is true only in server mode, from the outbound
\* hook's processing of the first local buffer to the Write that follows it
\* in the same task; no task reads while it is true, the remote-to-local task
\* never sees it true, and only the outbound task takes the re-link branch.
C24_FlagWindow == []C24_State /\ [][C24_Step]_vars

\* Server mode: the Write of the 101 response has returned and the flag is
\* about to be cleared.
C24_Witness ==
    /\ wsUpgradeInitialized
    /\ tasks[1].pc = "clear"
    /\ tasks[1].wto = "l"

\* After the window: the flag is clear again and the reverse task has read.
FlagClearedReverseReads ==
    /\ serverProxyMode
    /\ ~wsUpgradeInitialized
    /\ reads["r"] > 0
    /\ written["l"] > 0

\* server is not "host:port" with a decimal port: it has no colon or several,
\* or what follows the colon is empty or holds a byte that is no digit.
Unparsable(server) ==
    \/ Cardinality({i \in 1..Len(server) : server[i] = 58}) # 1
    \/ server[Len(server)] = 58
    \/ \E i \in 1..Len(server) :
          /\ server[i] \notin 48..57
          /\ \E j \in 1..(i - 1) : server[j] = 58

\* A SetServerHost call that fails to parse its argument, made in this state,
\* leaves the stored server host as it is.
C25_State ==
    \A server \in ServerInputs :
        Unparsable(server) => SetServerHost(server, sHost) = sHost

\* A setter other than SetlPayload leaves lPayload as it is; SetServerHost
\* stores a host with a name or leaves the stored one.
C25_Step ==
    /\ lastCall' \in {"SetServerHost", "SetSNIHost", "SetProxyKind", "SetBufferSize",
                      "SetEnableTLS", "SetServerProxyMode"} => lPayload' = lPayload
    /\ (lastCall' = "SetServerHost" /\ sHost' # sHost) => sHost'.HostName # <<>>

\* C25: lPayload is fixed by the configuration present when SetlPayload is
\* called: a later SetServerHost, SetSNIHost, SetProxyKind, SetBufferSize,
\* SetEnableTLS or SetServerProxyMode leaves it unchanged, and a SetServerHost
\* whose argument fails to parse leaves the stored server host unchanged.
C25_PayloadFixed == []C25_State /\ [][C25_Step]_vars

\* SetlPayload was called on the CONNECT template before any server host was
\* stored, SetServerHost was called afterwards: the token is still there.
C25_Witness ==
    /\ lastCall = "SetServerHost"
    /\ sHost.HostName # <<>>
    /\ lTemplate = TemplateConnect
    /\ Contains(lPayload, TokHostPort)

\* SetBufferSize was called after SetlPayload.
BufferSizeAfterPayload ==
    /\ lastCall = "SetBufferSize"
    /\ buffSize # DefaultBuffSize
    /\ lPayload # <<>>

====
